---- MODULE Spec2Model ----
(***************************************************************************)
(* Model of wilfullyapt/resume-rewriter: the template parser               *)
(* (template_parser.py) and the rewrite pipeline (resume_rewriter.py).     *)
(*                                                                         *)
(* A Python str is a sequence of one-character strings.  A dict is the     *)
(* sequence of its items in insertion order.  A call's outcome is a record *)
(* [exc, kind, msg, val]: a returned value (exc = FALSE) or a raised       *)
(* exception with its class name and its str() (a sequence of fragments).  *)
(***************************************************************************)
EXTENDS Integers, Sequences, FiniteSets, TLC

VARIABLES
    template,   \* the format template handed to the operation
    called,     \* parser run: which TemplateParser method has been called
    ret,        \* parser run: that call's outcome
    sample,     \* parser run: the sample_data handed to get_template_preview
    pc,         \* rewrite run: position of rewrite_resume
    request,    \* rewrite run: what the prompt holds of the template
    calls,      \* rewrite run: number of chat.completions.create calls made
    response,   \* rewrite run: what the collaborator answered
    outcome,    \* rewrite run: what rewrite_resume returned or raised
    session,    \* form: st.session_state
    shown,      \* form: the message the last script run displayed
    audit       \* form: the rewrite_resume calls made so far (history)

vars == <<template, called, ret, sample, pc, request, calls, response, outcome,
         session, shown, audit>>

----------------------------------------------------------------------------
\* Bounds of the model.

\* Number of pieces a template of the parser run is built from.
MaxPieces == 4

\* Number of pieces a template of the rewrite run is built from.
MaxRewritePieces == 3

\* Number of pieces a template of the preview run is built from.
MaxPreviewPieces == 3

\* Number of rewrite_resume calls of a form run.
MaxRewrites == 2

----------------------------------------------------------------------------
\* Strings.

Str(c) == <<c>>

Divider == <<"-", "-", "-">>

Whitespace == {" ", "\n"}

\* The pieces templates are built from: every single character of the
\* alphabet, the divider token, and two well-formed placeholders.
Pieces ==
    { Str("{"), Str("}"), Str("-"), Str("a"), Str(" "), Str("\n"),
      Divider, <<"{", "a", "}">>, <<"{", "b", "}">> }

RECURSIVE Built(_)
Built(n) ==
    IF n = 0 THEN { <<>> }
    ELSE LET prev == Built(n - 1)
         IN  prev \cup { t \o p : t \in prev, p \in Pieces }

ParserTemplates == Built(MaxPieces)

RewriteTemplates == Built(MaxRewritePieces)

\* A returned value and a raised exception.
Ok(v) == [exc |-> FALSE, kind |-> "", msg |-> <<>>, val |-> v]

Raise(kind, msg) == [exc |-> TRUE, kind |-> kind, msg |-> msg, val |-> <<>>]

\* str.strip(): leading and trailing whitespace removed.
RECURSIVE LStrip(_)
LStrip(s) ==
    IF s # <<>> /\ Head(s) \in Whitespace THEN LStrip(Tail(s)) ELSE s

RECURSIVE RStrip(_)
RStrip(s) ==
    IF s # <<>> /\ s[Len(s)] \in Whitespace
    THEN RStrip(SubSeq(s, 1, Len(s) - 1))
    ELSE s

Strip(s) == RStrip(LStrip(s))

\* s.startswith(old, i), 1-based.
StartsAt(s, old, i) ==
    /\ i + Len(old) - 1 <= Len(s)
    /\ SubSeq(s, i, i + Len(old) - 1) = old

\* `old in s`.
Contains(s, old) == \E i \in 1..(Len(s) + 1) : StartsAt(s, old, i)

\* str.split(sep): cut at each occurrence of sep found scanning left to
\* right, the scan resuming after the occurrence.
RECURSIVE SplitFrom(_, _, _, _)
SplitFrom(s, sep, i, start) ==
    IF i + Len(sep) - 1 > Len(s) THEN << SubSeq(s, start, Len(s)) >>
    ELSE IF StartsAt(s, sep, i)
         THEN << SubSeq(s, start, i - 1) >>
              \o SplitFrom(s, sep, i + Len(sep), i + Len(sep))
         ELSE SplitFrom(s, sep, i + 1, start)

\* A split that drops the empty parts.
SplitDropEmpty(s, sep) ==
    SelectSeq(SplitFrom(s, sep, 1, 1), LAMBDA x : x # <<>>)

Split(s, sep) == SplitFrom(s, sep, 1, 1)

\* str.replace(old, new), old non-empty: every occurrence found scanning
\* left to right is replaced, the scan resuming after the occurrence in
\* the ORIGINAL string (the inserted text is not scanned by this call).
RECURSIVE ReplaceFrom(_, _, _, _)
ReplaceFrom(s, old, new, i) ==
    IF i > Len(s) THEN <<>>
    ELSE IF StartsAt(s, old, i)
         THEN new \o ReplaceFrom(s, old, new, i + Len(old))
         ELSE << s[i] >> \o ReplaceFrom(s, old, new, i + 1)

\* re.sub(r'\{[^}]+\}', new, s): every placeholder span replaced, whatever
\* its name.
RECURSIVE ReplaceSpansFrom(_, _, _)
ReplaceSpansFrom(s, new, i) ==
    IF i > Len(s) THEN <<>>
    ELSE IF s[i] = "{" /\ \E j \in (i + 2)..Len(s) :
                              /\ s[j] = "}"
                              /\ \A m \in (i + 1)..(j - 1) : s[m] # "}"
         THEN LET j == CHOOSE c \in (i + 2)..Len(s) :
                          /\ s[c] = "}"
                          /\ \A m \in (i + 1)..(c - 1) : s[m] # "}"
              IN  new \o ReplaceSpansFrom(s, new, j + 1)
         ELSE << s[i] >> \o ReplaceSpansFrom(s, new, i + 1)

ReplaceAnySpan(s, old, new) == ReplaceSpansFrom(s, new, 1)

\* str.replace(old, new, 1): the first occurrence only.
ReplaceFirst(s, old, new) ==
    IF \E i \in 1..Len(s) : StartsAt(s, old, i)
    THEN LET i == CHOOSE k \in 1..Len(s) :
                    /\ StartsAt(s, old, k)
                    /\ \A m \in 1..(k - 1) : ~StartsAt(s, old, m)
         IN  SubSeq(s, 1, i - 1) \o new \o SubSeq(s, i + Len(old), Len(s))
    ELSE s

Replace(s, old, new) == ReplaceFrom(s, old, new, 1)

\* f"{{{variable}}}"
Placeholder(variable) == <<"{">> \o variable \o <<"}">>

----------------------------------------------------------------------------
\* Regular expressions of template_parser.py.

\* End of the greedy run [^}]* started at i: the first index >= i holding
\* "}", or Len(s) + 1 when the run reaches the end of the string.
RECURSIVE RunEnd(_, _)
RunEnd(s, i) ==
    IF i > Len(s) \/ s[i] = "}" THEN i ELSE RunEnd(s, i + 1)

\* re.findall(r'\{([^}]+)\}', s) from position i: leftmost matches, not
\* overlapping; a match is "{", a non-empty run without "}", then "}".
RECURSIVE FindAllFrom(_, _)
FindAllFrom(s, i) ==
    IF i > Len(s) THEN <<>>
    ELSE IF s[i] = "{"
         THEN LET j == RunEnd(s, i + 1)
              IN  IF j > i + 1 /\ j <= Len(s)
                  THEN << SubSeq(s, i + 1, j - 1) >> \o FindAllFrom(s, j + 1)
                  ELSE FindAllFrom(s, i + 1)
         ELSE FindAllFrom(s, i + 1)

\* A findall whose names are deduplicated (first appearance kept).
RECURSIVE Dedup(_)
Dedup(q) ==
    IF q = <<>> THEN <<>>
    ELSE << Head(q) >> \o SelectSeq(Dedup(Tail(q)), LAMBDA x : x # Head(q))

FindAllDistinct(s) == Dedup(FindAllFrom(s, 1))

FindVariables(s) == FindAllFrom(s, 1)

\* re.search(r'\{[^}]+\}', s)
SearchVariable(s) == FindAllFrom(s, 1) # <<>>

\* r'\{[^}]*$' tried at "{" in position i: the run must reach "$", which
\* (without re.M) is the end of the string or just before a final "\n".
\* Every character of the run is not "}", so backing the run off reaches
\* the position before a final newline whenever the run reaches the end.
MatchToEnd(s, i) == RunEnd(s, i + 1) = Len(s) + 1

\* r'\{[^}]*\n' tried at "{" in position i: the run, backed off, must be
\* followed by a newline, i.e. the run holds a newline.
MatchToNewline(s, i) ==
    \E n \in (i + 1)..(RunEnd(s, i + 1) - 1) : s[n] = "\n"

\* The malformed check without its newline alternative.
MalformedNoNewline(s) ==
    \E i \in 1..Len(s) : s[i] = "{" /\ MatchToEnd(s, i)

\* bool(re.findall(r'\{[^}]*$|\{[^}]*\n', s))
Malformed(s) ==
    \E i \in 1..Len(s) :
        s[i] = "{" /\ (MatchToEnd(s, i) \/ MatchToNewline(s, i))

----------------------------------------------------------------------------
\* TemplateParser (template_parser.py).

\* An emptiness test that forgets whitespace-only templates.
IsEmptyTemplateNoStrip(t) == t = <<>>

\* `not template or not template.strip()`
IsEmptyTemplate(t) == t = <<>> \/ Strip(t) = <<>>

\* sections = [section.strip() for section in template.split('---')]
Sections(t) ==
    LET raw == Split(t, Divider)
    IN  [i \in 1..Len(raw) |-> Strip(raw[i])]

\* A variable_sections loop that records each name of a section once.
RECURSIVE VariableSectionsDistinctFrom(_, _)
VariableSectionsDistinctFrom(secs, i) ==
    IF i > Len(secs) THEN <<>>
    ELSE IF SearchVariable(secs[i])
         THEN << [index |-> i - 1, content |-> secs[i],
                  variables |-> FindAllDistinct(secs[i])] >>
              \o VariableSectionsDistinctFrom(secs, i + 1)
         ELSE VariableSectionsDistinctFrom(secs, i + 1)

\* The loop over enumerate(sections): the entries appended to
\* variable_sections, in index order (index is 0-based as in the code).
RECURSIVE VariableSectionsFrom(_, _)
VariableSectionsFrom(secs, i) ==
    IF i > Len(secs) THEN <<>>
    ELSE IF SearchVariable(secs[i])
         THEN << [index |-> i - 1, content |-> secs[i],
                  variables |-> FindVariables(secs[i])] >>
              \o VariableSectionsFrom(secs, i + 1)
         ELSE VariableSectionsFrom(secs, i + 1)

\* The same loop: the entries appended to immutable_sections.
RECURSIVE ImmutableSectionsFrom(_, _)
ImmutableSectionsFrom(secs, i) ==
    IF i > Len(secs) THEN <<>>
    ELSE IF ~SearchVariable(secs[i]) /\ Strip(secs[i]) # <<>>
         THEN << [index |-> i - 1, content |-> secs[i]] >>
              \o ImmutableSectionsFrom(secs, i + 1)
         ELSE ImmutableSectionsFrom(secs, i + 1)

EmptyTemplateMessage == << "Template cannot be empty" >>

\* TemplateParser.parse_template
ParseTemplate(t) ==
    IF IsEmptyTemplate(t) THEN Raise("ValueError", EmptyTemplateMessage)
    ELSE LET secs == Sections(t)
         IN  Ok([variables          |-> FindVariables(t),
                 sections           |-> secs,
                 immutable_sections |-> ImmutableSectionsFrom(secs, 1),
                 variable_sections  |-> VariableSectionsFrom(secs, 1),
                 total_sections     |-> Len(secs)])

\* Threshold of the "many variables" warning.
ManyVariables == 10

HasDuplicates(q) == \E i, j \in 1..Len(q) : i < j /\ q[i] = q[j]

Report(valid, errors, warnings) ==
    [is_valid |-> valid, errors |-> errors, warnings |-> warnings]

\* The checks of validate_template made after a successful parse, in order.
ValidateParsed(t, parsed) ==
    LET w1 == IF parsed.variables = <<>>
              THEN << "No variables found in template - resume will be static" >>
              ELSE <<>>
        w2 == IF Len(parsed.variables) > ManyVariables
              THEN << "Template has many variables - consider consolidating" >>
              ELSE <<>>
        bad == Malformed(t)
        w3 == IF HasDuplicates(parsed.variables)
              THEN << "Template contains duplicate variables" >>
              ELSE <<>>
        w4 == IF ~Contains(t, Divider)
              THEN << "No section dividers found - consider using --- for better structure" >>
              ELSE <<>>
    IN  Report(~bad,
               IF bad THEN << "Found malformed variables (unclosed braces)" >>
                      ELSE <<>>,
               w1 \o w2 \o w3 \o w4)

\* TemplateParser.validate_template: always returns the report; an
\* exception of the body is caught and reported as an error.
ValidateTemplate(t) ==
    IF IsEmptyTemplate(t)
    THEN Ok(Report(FALSE, EmptyTemplateMessage, <<>>))
    ELSE LET p == ParseTemplate(t)
         IN  IF p.exc
             THEN Ok(Report(FALSE, << "Template parsing error: " >> \o p.msg, <<>>))
             ELSE Ok(ValidateParsed(t, p.val))

\* str.replace('_', ' ')
UnderscoresToSpaces(s) == [i \in 1..Len(s) |-> IF s[i] = "_" THEN " " ELSE s[i]]

LowerCase == {"a", "b", "x"}

UpperCase == {"A", "B", "X"}

Upper(c) == CASE c = "a" -> "A" [] c = "b" -> "B" [] c = "x" -> "X" [] OTHER -> c

Lower(c) == CASE c = "A" -> "a" [] c = "B" -> "b" [] c = "X" -> "x" [] OTHER -> c

\* str.title(): a cased character is upper-cased when the character before
\* it is not cased, lower-cased otherwise; other characters are kept.
Title(s) ==
    [i \in 1..Len(s) |->
        IF i > 1 /\ s[i - 1] \in LowerCase \cup UpperCase
        THEN Lower(s[i])
        ELSE Upper(s[i])]

\* f"[Sample {variable.replace('_', ' ').title()} Content]"
SamplePlaceholder(variable) ==
    <<"[", "S", "a", "m", "p", "l", "e", " ">>
        \o Title(UnderscoresToSpaces(variable))
        \o <<" ", "C", "o", "n", "t", "e", "n", "t", "]">>

\* The replacement get_template_preview picks for a variable.
PreviewReplacement(variable, data) ==
    IF variable \in DOMAIN data THEN data[variable].text
    ELSE SamplePlaceholder(variable)

\* A preview loop that replaces each span once, in one pass over the
\* template, never looking at substituted text.
RECURSIVE PreviewSinglePass(_, _, _)
PreviewSinglePass(s, i, data) ==
    IF i > Len(s) THEN <<>>
    ELSE IF s[i] = "{" /\ RunEnd(s, i + 1) > i + 1 /\ RunEnd(s, i + 1) <= Len(s)
         THEN LET j == RunEnd(s, i + 1)
              IN  PreviewReplacement(SubSeq(s, i + 1, j - 1), data)
                      \o PreviewSinglePass(s, j + 1, data)
         ELSE << s[i] >> \o PreviewSinglePass(s, i + 1, data)

\* The loop of get_template_preview over parsed['variables']: str.replace
\* raises TypeError when the sample value is no str.
RECURSIVE PreviewLoop(_, _, _)
PreviewLoop(preview, variables, data) ==
    IF variables = <<>> THEN Ok(preview)
    ELSE LET v == Head(variables)
         IN  IF v \in DOMAIN data /\ ~data[v].isStr
             THEN Raise("TypeError", << "replace() argument 2 must be str" >>)
             ELSE PreviewLoop(Replace(preview, Placeholder(v),
                                      PreviewReplacement(v, data)),
                              Tail(variables), data)

\* TemplateParser.get_template_preview: an exception of the body is caught
\* and returned as the preview text.
GetTemplatePreview(t, data) ==
    LET p == ParseTemplate(t)
        r == IF p.exc THEN p ELSE PreviewLoop(t, p.val.variables, data)
    IN  IF r.exc THEN Ok(<< "Error generating preview: " >> \o r.msg)
        ELSE r

----------------------------------------------------------------------------
\* The generation collaborator's answers.

\* Keys and values of the generated `sections` object.
Names == { <<"a">>, <<"b">> }

Texts == { <<"X">>, <<"{", "b", "}">> }

\* An item of `sections`: its value is a str, or some other JSON value.
Items ==
    [name : Names, text : Texts, isStr : {TRUE}]
        \cup [name : Names, text : {<<>>}, isStr : {FALSE}]

\* The `sections` objects: items with distinct keys, in every order.
ContentMaps ==
    { <<>> } \cup { <<x>> : x \in Items }
        \cup UNION { { <<x, y>> : y \in { z \in Items : z.name # x.name } }
                        : x \in Items }

CoverLetters == { <<"D", "e", "a", "r">> }

FaultMessages == { "Connection error.", "Invalid response format from AI" }

NoResponse ==
    [type |-> "none", msg |-> "", hasSections |-> FALSE, hasCover |-> FALSE,
     isDict |-> FALSE, items |-> <<>>, cover |-> <<>>]

\* chat.completions.create raised.
Fault(m) == [NoResponse EXCEPT !.type = "fault", !.msg = m]

\* The message content is not JSON: json.loads raises.
BadJson ==
    [NoResponse EXCEPT !.type = "badjson",
                       !.msg = "Expecting value: line 1 column 1 (char 0)"]

\* A JSON object with or without each of the two keys; `sections` is an
\* object (isDict) or another JSON value.
JsonObjects ==
    { [NoResponse EXCEPT !.type = "json", !.hasCover = TRUE, !.cover = c]
        : c \in CoverLetters }
    \cup { [NoResponse EXCEPT !.type = "json"] }
    \cup { [NoResponse EXCEPT !.type = "json", !.hasSections = TRUE,
                              !.hasCover = hc,
                              !.cover = IF hc THEN c ELSE <<>>,
                              !.isDict = d,
                              !.items = IF d THEN m ELSE <<>>]
             : hc \in BOOLEAN, c \in CoverLetters, d \in BOOLEAN,
               m \in ContentMaps }

----------------------------------------------------------------------------
\* ResumeRewriter (resume_rewriter.py).

\* An except clause that re-raises the exception as it is.
WrapUnchanged(prefix, e) == e

\* except Exception as e: raise Exception(f"<prefix>{str(e)}")
Wrap(prefix, e) == Raise("Exception", << prefix >> \o e.msg)

\* _apply_template's loop over section_content.items(), in dict order.
\* str.replace raises TypeError before replacing when content is no str.
RECURSIVE ApplyItems(_, _)
ApplyItems(result, items) ==
    IF items = <<>> THEN Ok(result)
    ELSE IF ~Head(items).isStr
         THEN Raise("TypeError", << "replace() argument 2 must be str" >>)
         ELSE ApplyItems(Replace(result, Placeholder(Head(items).name),
                                 Head(items).text),
                         Tail(items))

\* ResumeRewriter._apply_template
ApplyTemplate(t, resp) ==
    IF ~resp.isDict
    THEN Raise("AttributeError", << "object has no attribute 'items'" >>)
    ELSE ApplyItems(t, resp.items)

\* The try block of _generate_structured_content from the call on, and its
\* except clause.
GenerateStructuredContent(resp) ==
    LET body ==
            IF resp.type = "fault" THEN Raise("APIError", << resp.msg >>)
            ELSE IF resp.type = "badjson"
                 THEN Raise("JSONDecodeError", << resp.msg >>)
            ELSE IF ~resp.hasSections \/ ~resp.hasCover
                 THEN Raise("Exception", << "Invalid response format from AI" >>)
            ELSE Ok(resp)
    IN  IF body.exc
        THEN Wrap("Failed to generate structured content: ", body)
        ELSE body

\* section_headers[variable] = header: a new key goes last, a known key
\* keeps its place and takes the new value.
DictSet(d, k, v) ==
    IF \E i \in 1..Len(d) : d[i].key = k
    THEN [i \in 1..Len(d) |-> IF d[i].key = k THEN [key |-> k, value |-> v]
                                              ELSE d[i]]
    ELSE Append(d, [key |-> k, value |-> v])

\* The loop of _generate_structured_content that fills section_headers.
RECURSIVE SectionHeaders(_, _)
SectionHeaders(d, variables) ==
    IF variables = <<>> THEN d
    ELSE SectionHeaders(
             DictSet(d, Head(variables),
                     Title(UnderscoresToSpaces(Head(variables)))),
             Tail(variables))

\* A request whose variable list is deduplicated.
GenerationRequestDistinct(template_info) ==
    [variables       |-> Dedup(template_info.variables),
     section_headers |-> SectionHeaders(<<>>, template_info.variables)]

\* What the system prompt holds of the template: the list
\* list(template_info['variables']) and the dict section_headers.
GenerationRequest(template_info) ==
    [variables       |-> template_info.variables,
     section_headers |-> SectionHeaders(<<>>, template_info.variables)]

\* rewrite_resume up to the collaborator call: parse_template.
RewriteParse(t) ==
    LET p == ParseTemplate(t)
    IN  IF p.exc THEN Wrap("Failed to rewrite resume: ", p) ELSE p

\* A rewrite that falls back on defaults instead of failing.
RewriteFinishLenient(t, resp) ==
    LET r == IF resp.isDict /\ \A i \in 1..Len(resp.items) : resp.items[i].isStr
             THEN ApplyItems(t, resp.items).val
             ELSE t
    IN  Ok([resume |-> r, cover_letter |-> resp.cover])

\* rewrite_resume from the collaborator's answer on: the rest of
\* _generate_structured_content, _apply_template, the returned dict, and
\* the except clause.
RewriteFinish(t, resp) ==
    LET g == GenerateStructuredContent(resp)
    IN  IF g.exc THEN Wrap("Failed to rewrite resume: ", g)
        ELSE LET r == ApplyTemplate(t, g.val)
             IN  IF r.exc THEN Wrap("Failed to rewrite resume: ", r)
                 ELSE Ok([resume |-> r.val, cover_letter |-> g.val.cover])

----------------------------------------------------------------------------
\* The form (app.py).

\* ResumeRewriter.rewrite_resume as one call; the collaborator is asked
\* only when parse_template succeeded.
RewriteResume(t, resp) ==
    LET p == RewriteParse(t)
    IN  IF p.exc THEN p ELSE RewriteFinish(t, resp)

\* The template the text area shows while session_state.format_template
\* is empty: a header, a divider and a variable.
DefaultTemplate == <<"a">> \o Divider \o <<"{", "a", "}">>

\* session_state after the first script run: the keys initialised to "",
\* format_template then set from the text area showing the default.
InitialSession ==
    [resume_text      |-> <<>>,
     job_description  |-> <<>>,
     user_experience  |-> <<>>,
     format_template  |-> DefaultTemplate,
     rewritten_resume |-> <<>>,
     cover_letter     |-> <<>>]

\* No rewrite_resume call made yet.
InitialAudit ==
    [rewrites |-> 0, succeeded |-> FALSE, resume |-> <<>>, cover_letter |-> <<>>]

AppVars == <<session, shown, audit>>

AppIdle ==
    /\ session = InitialSession
    /\ shown = "none"
    /\ audit = InitialAudit

----------------------------------------------------------------------------
\* The rewrite run: one call of rewrite_resume on one template.

Init ==
    /\ template \in RewriteTemplates
    /\ called = "off"
    /\ ret = Ok(<<>>)
    /\ sample = <<>>
    /\ pc = "start"
    /\ request = <<>>
    /\ calls = 0
    /\ response = NoResponse
    /\ outcome = Ok(<<>>)
    /\ AppIdle

\* rewrite_resume runs to the collaborator call, or raises on the way.
RewriteStart ==
    /\ pc = "start"
    /\ LET p == RewriteParse(template)
       IN  IF p.exc
           THEN /\ pc' = "raised"
                /\ outcome' = p
                /\ UNCHANGED <<request, calls>>
           ELSE /\ pc' = "calling"
                /\ request' = GenerationRequest(p.val)
                /\ calls' = calls + 1
                /\ UNCHANGED outcome
    /\ UNCHANGED <<template, called, ret, sample, response, AppVars>>

RewriteEnd(resp) ==
    /\ response' = resp
    /\ outcome' = RewriteFinish(template, resp)
    /\ pc' = IF outcome'.exc THEN "raised" ELSE "returned"
    /\ UNCHANGED <<template, called, ret, sample, request, calls, AppVars>>

\* A collaborator fault answered by calling the collaborator again.
CollaboratorFaultsRetried ==
    /\ pc = "calling"
    /\ \E m \in FaultMessages :
           IF calls < 2
           THEN /\ calls' = calls + 1
                /\ UNCHANGED <<template, called, ret, sample, pc, request,
                               response, outcome, AppVars>>
           ELSE RewriteEnd(Fault(m))

\* The collaborator call raises.
CollaboratorFaults ==
    /\ pc = "calling"
    /\ \E m \in FaultMessages : RewriteEnd(Fault(m))

\* The collaborator call returns a message.
CollaboratorReplies ==
    /\ pc = "calling"
    /\ \E resp \in JsonObjects \cup { BadJson } : RewriteEnd(resp)

Next == RewriteStart \/ CollaboratorFaults \/ CollaboratorReplies

Spec == Init /\ [][Next]_vars

----------------------------------------------------------------------------
\* The parser run: one template, one call of a TemplateParser method.

InitParser ==
    /\ template \in ParserTemplates
    /\ called = "none"
    /\ ret = Ok(<<>>)
    /\ sample = <<>>
    /\ pc = "off"
    /\ request = <<>>
    /\ calls = 0
    /\ response = NoResponse
    /\ outcome = Ok(<<>>)
    /\ AppIdle

RewriteVars == <<pc, request, calls, response, outcome>>

CallParse ==
    /\ called = "none"
    /\ called' = "parse_template"
    /\ ret' = ParseTemplate(template)
    /\ UNCHANGED <<template, sample, RewriteVars, AppVars>>

CallValidate ==
    /\ called = "none"
    /\ called' = "validate_template"
    /\ ret' = ValidateTemplate(template)
    /\ UNCHANGED <<template, sample, RewriteVars, AppVars>>

NextParser == CallParse \/ CallValidate

SpecParser == InitParser /\ [][NextParser]_vars

----------------------------------------------------------------------------
\* The preview run: one call of get_template_preview.

\* The values of sample_data: a str, or something else.
SampleValues ==
    [text : { <<"X">>, <<"{", "b", "}">> }, isStr : {TRUE}]
        \cup [text : {<<>>}, isStr : {FALSE}]

\* The sample_data dicts (None and {} are the empty one).
Samples ==
    UNION { [D -> SampleValues] : D \in SUBSET { <<"a">>, <<"b">> } }

InitPreview ==
    /\ template \in Built(MaxPreviewPieces)
    /\ called = "none"
    /\ ret = Ok(<<>>)
    /\ sample = <<>>
    /\ pc = "off"
    /\ request = <<>>
    /\ calls = 0
    /\ response = NoResponse
    /\ outcome = Ok(<<>>)
    /\ AppIdle

CallPreview ==
    /\ called = "none"
    /\ \E data \in Samples :
           /\ sample' = data
           /\ ret' = GetTemplatePreview(template, data)
    /\ called' = "get_template_preview"
    /\ UNCHANGED <<template, RewriteVars, AppVars>>

NextPreview == CallPreview

SpecPreview == InitPreview /\ [][NextPreview]_vars

----------------------------------------------------------------------------
\* The form run: script runs of app.py, one per user interaction.

\* What the user can put into the template text area.
FormTemplates == { <<>>, <<" ">>, DefaultTemplate, <<"{", "b", "}">> }

\* What the collaborator answers to a rewrite started from the form.
FormResponses ==
    { Fault("Connection error."),
      [NoResponse EXCEPT !.type = "json", !.hasCover = TRUE, !.cover = <<"D">>] }
    \cup { [NoResponse EXCEPT !.type = "json", !.hasSections = TRUE,
                              !.hasCover = TRUE, !.cover = c,
                              !.isDict = TRUE, !.items = m]
             : c \in { <<"D">>, <<"H">> },
               m \in { <<>>, << [name |-> <<"a">>, text |-> <<"X">>, isStr |-> TRUE] >> } }

\* A chain of checks that forgets the template.
MissingInputNoTemplate(s) ==
    IF s.resume_text = <<>> THEN "resume_text"
    ELSE IF s.job_description = <<>> THEN "job_description"
    ELSE IF s.user_experience = <<>> THEN "user_experience"
    ELSE "none"

\* The if/elif chain of the button handler: the first input that is
\* falsy, or "none".
MissingInput(s) ==
    IF s.resume_text = <<>> THEN "resume_text"
    ELSE IF s.job_description = <<>> THEN "job_description"
    ELSE IF s.user_experience = <<>> THEN "user_experience"
    ELSE IF s.format_template = <<>> THEN "format_template"
    ELSE "none"

InitForm ==
    /\ template = <<>>
    /\ called = "off"
    /\ ret = Ok(<<>>)
    /\ sample = <<>>
    /\ pc = "off"
    /\ request = <<>>
    /\ calls = 0
    /\ response = NoResponse
    /\ outcome = Ok(<<>>)
    /\ AppIdle

OtherVars == <<template, called, ret, sample, RewriteVars>>

\* A PDF is uploaded: extract_text returns a non-empty text, or raises and
\* the stored text stays.
UploadResume ==
    /\ \/ /\ session' = [session EXCEPT !.resume_text = <<"R">>]
          /\ shown' = "extracted"
       \/ /\ shown' = "pdf error"
          /\ UNCHANGED session
    /\ UNCHANGED <<audit, OtherVars>>

\* The job description text area is edited.
EditJobDescription ==
    /\ \E v \in { <<>>, <<"J">> } :
           session' = [session EXCEPT !.job_description = v]
    /\ shown' = "none"
    /\ UNCHANGED <<audit, OtherVars>>

\* The experience text area is edited.
EditUserExperience ==
    /\ \E v \in { <<>>, <<"E">> } :
           session' = [session EXCEPT !.user_experience = v]
    /\ shown' = "none"
    /\ UNCHANGED <<audit, OtherVars>>

\* The template text area is edited.
EditFormatTemplate ==
    /\ \E t \in FormTemplates :
           session' = [session EXCEPT !.format_template = t]
    /\ shown' = "none"
    /\ UNCHANGED <<audit, OtherVars>>

\* The rewrite button is pressed: the whole handler, rewrite_resume and
\* its collaborator call included.
PressRewrite ==
    /\ IF MissingInput(session) # "none"
       THEN /\ shown' = "missing"
            /\ UNCHANGED <<session, audit>>
       ELSE /\ audit.rewrites < MaxRewrites
            /\ \E resp \in FormResponses :
                   LET result == RewriteResume(session.format_template, resp)
                   IN  IF result.exc
                       THEN /\ shown' = "error"
                            /\ audit' = [audit EXCEPT !.rewrites = @ + 1]
                            /\ UNCHANGED session
                       ELSE /\ session' =
                                   [session EXCEPT
                                       !.rewritten_resume = result.val.resume,
                                       !.cover_letter = result.val.cover_letter]
                            /\ shown' = "success"
                            /\ audit' = [rewrites     |-> audit.rewrites + 1,
                                         succeeded    |-> TRUE,
                                         resume       |-> result.val.resume,
                                         cover_letter |-> result.val.cover_letter]
    /\ UNCHANGED OtherVars

NextForm ==
    \/ UploadResume
    \/ EditJobDescription
    \/ EditUserExperience
    \/ EditFormatTemplate
    \/ PressRewrite

SpecForm == InitForm /\ [][NextForm]_vars

----------------------------------------------------------------------------
\* Properties of the parser run.

\* A template that is empty or holds only whitespace.
Blank(t) == \A i \in 1..Len(t) : t[i] \in Whitespace

\* An opening "{" at position i with no closing "}" before the end of the
\* input, or with a newline after it and no "}" in between.
UnterminatedAt(t, i) ==
    /\ t[i] = "{"
    /\ \/ \A j \in (i + 1)..Len(t) : t[j] # "}"
       \/ \E n \in (i + 1)..Len(t) :
              /\ t[n] = "\n"
              /\ \A j \in (i + 1)..(n - 1) : t[j] # "}"

Unterminated(t) == \E i \in 1..Len(t) : UnterminatedAt(t, i)

\* Number of divider tokens: occurrences counted left to right, a
\* character belonging to one token only.
RECURSIVE DividerCount(_)
DividerCount(t) ==
    IF Len(t) < 3 THEN 0
    ELSE IF SubSeq(t, 1, 3) = Divider
         THEN 1 + DividerCount(SubSeq(t, 4, Len(t)))
         ELSE DividerCount(Tail(t))

\* The positions where a placeholder span starts: a "{" that no earlier
\* "{" reaches without crossing a "}", closed by the next "}" with at
\* least one character in between.
SpanStarts(t) ==
    { i \in 1..Len(t) :
        /\ t[i] = "{"
        /\ \A k \in 1..(i - 1) :
               t[k] = "{" => \E m \in (k + 1)..(i - 1) : t[m] = "}"
        /\ i < Len(t) /\ t[i + 1] # "}"
        /\ \E j \in (i + 2)..Len(t) : t[j] = "}" }

\* The name of the placeholder span starting at i.
SpanName(t, i) ==
    LET j == CHOOSE c \in (i + 2)..Len(t) :
                 /\ t[c] = "}"
                 /\ \A m \in (i + 1)..(c - 1) : t[m] # "}"
    IN  SubSeq(t, i + 1, j - 1)

\* The placeholder names of t in left-to-right order of their spans.
SpanNames(t) ==
    LET S == SpanStarts(t)
        at(k) == CHOOSE i \in S : Cardinality({ x \in S : x < i }) = k - 1
    IN  [k \in 1..Cardinality(S) |-> SpanName(t, at(k))]

\* C5 as stated: validate on an empty or whitespace-only template throws
\* EmptyTemplateError instead of returning a validation report.
C5_ValidateEmptyThrows ==
    (called = "validate_template" /\ Blank(template)) => ret.exc

\* C5 amended: validate on an empty or whitespace-only template throws
\* nothing; it returns the report with is_valid false, the single error
\* "Template cannot be empty" and no warning.
C5_ValidateEmptyReports ==
    (called = "validate_template" /\ Blank(template)) =>
        /\ ~ret.exc
        /\ ret.val = [is_valid |-> FALSE,
                      errors   |-> << "Template cannot be empty" >>,
                      warnings |-> <<>>]

C5_Witness ==
    /\ called = "validate_template"
    /\ template # <<>> /\ Blank(template)
    /\ ~ret.exc /\ ~ret.val.is_valid

\* C6: for a non-empty template validate reports is_valid false, with a
\* non-empty errors list, exactly when the template has an unterminated
\* placeholder; every other non-empty template is reported valid.
C6_ValidIffTerminated ==
    (called = "validate_template" /\ ~Blank(template)) =>
        /\ ~ret.exc
        /\ ret.val.is_valid = ~Unterminated(template)
        /\ ~ret.val.is_valid => ret.val.errors # <<>>
        /\ ret.val.is_valid => ret.val.errors = <<>>

C6_Witness ==
    /\ called = "validate_template"
    /\ ~Blank(template)
    /\ \E i \in 1..Len(template) :
           /\ template[i] = "{"
           /\ \E j \in (i + 1)..Len(template) : template[j] = "}"
           /\ UnterminatedAt(template, i)
    /\ ~ret.val.is_valid

\* C7: for a non-empty template with n divider tokens parse returns
\* exactly n + 1 sections, empty ones included, and total_sections = n + 1.
C7_SectionCount ==
    (called = "parse_template" /\ ~Blank(template)) =>
        /\ ~ret.exc
        /\ Len(ret.val.sections) = DividerCount(template) + 1
        /\ ret.val.total_sections = DividerCount(template) + 1

C7_Witness ==
    /\ called = "parse_template"
    /\ ~Blank(template)
    /\ DividerCount(template) = 2
    /\ Len(ret.val.sections) = 3
    /\ \E i \in 1..3 : ret.val.sections[i] = <<>>

\* C8: for a non-empty template parse's variables are the placeholder
\* names in left-to-right order of appearance, duplicates preserved.
C8_VariablesInOrder ==
    (called = "parse_template" /\ ~Blank(template)) =>
        /\ ~ret.exc
        /\ ret.val.variables = SpanNames(template)

C8_Witness ==
    /\ called = "parse_template"
    /\ ~ret.exc
    /\ ret.val.variables = << <<"a">>, <<"b">>, <<"a">> >>

----------------------------------------------------------------------------
\* Properties of the rewrite run.

\* The sequences holding the items of q in every order.
Orders(q) ==
    LET n == Len(q)
        bij == { f \in [1..n -> 1..n] : \A i, j \in 1..n : f[i] = f[j] => i = j }
    IN  { [i \in 1..n |-> q[f[i]]] : f \in bij }

\* Number of positions of s where sub occurs.
Occurrences(s, sub) == Cardinality({ i \in 1..Len(s) : StartsAt(s, sub, i) })

\* The keys of a `sections` object.
Keys(items) == { items[i].name : i \in 1..Len(items) }

\* The placeholder names parse finds in the template of the run.
TemplateVariables ==
    LET v == ParseTemplate(template).val.variables
    IN  { v[i] : i \in 1..Len(v) }

\* The collaborator answered a JSON object lacking a required key.
LacksKey == response.type = "json" /\ (~response.hasSections \/ ~response.hasCover)

\* C1 as stated: render's output is the same for every order in which the
\* names of the content map are replaced (text substituted for one
\* placeholder is never rewritten by the replacement of another name).
C1_OrderNotObservable ==
    pc = "returned" =>
        \A q \in Orders(response.items) :
            ApplyItems(template, q).val = outcome.val.resume

\* C2: rewrite either returns a result holding both the rendered resume
\* and the cover letter, or raises and returns nothing; a response lacking
\* the sections key or the cover-letter key never yields a returned pair.
C2_AllOrNothing ==
    /\ pc \in {"returned", "raised"} => (pc = "raised") = outcome.exc
    /\ pc = "raised" => outcome.val = <<>>
    /\ pc = "returned" =>
           /\ DOMAIN outcome.val = {"resume", "cover_letter"}
           /\ response.type = "json"
           /\ response.hasSections /\ response.hasCover /\ response.isDict
           /\ outcome.val.cover_letter = response.cover
           /\ outcome.val.resume = ApplyItems(template, response.items).val
    /\ LacksKey => pc = "raised"

C2_Witness ==
    /\ pc = "raised"
    /\ response.type = "json"
    /\ ~response.hasSections /\ response.hasCover
    /\ outcome.exc /\ outcome.val = <<>>

\* C3 as stated: the error raised for a response lacking a required key
\* is of a kind the caller can tell apart from the kind raised when the
\* collaborator call itself fails.
C3_MalformedKindDistinct ==
    (pc = "raised" /\ LacksKey) =>
        \A m \in FaultMessages :
            outcome.kind # RewriteFinish(template, Fault(m)).kind

C10_ExtraKeysIgnored ==
    pc = "returned" =>
        LET placeholders == TemplateVariables
            kept == SelectSeq(response.items, LAMBDA x : x.name \in placeholders)
        IN  /\ outcome.val.resume = ApplyItems(template, kept).val
            /\ kept = <<>> => outcome.val.resume = template

\* parts joined with sep between consecutive parts.
RECURSIVE Join(_, _)
Join(parts, sep) ==
    IF Len(parts) = 1 THEN parts[1]
    ELSE parts[1] \o sep \o Join(Tail(parts), sep)

\* s cut at every occurrence of old and rejoined with new: each occurrence
\* of old gives way to the same text.
EveryOccurrenceReplaced(s, old, new) == Join(SplitFrom(s, old, 1, 1), new)

\* The items applied in turn, each name's occurrences all replaced.
RECURSIVE RenderedGlobally(_, _)
RenderedGlobally(s, items) ==
    IF items = <<>> THEN s
    ELSE RenderedGlobally(
             EveryOccurrenceReplaced(s, Placeholder(Head(items).name),
                                     Head(items).text),
             Tail(items))

\* No "{" of t is followed by another "{" before the next "}".
RECURSIVE FlatFrom(_, _, _)
FlatFrom(t, i, open) ==
    IF i > Len(t) THEN TRUE
    ELSE IF t[i] = "{" THEN ~open /\ FlatFrom(t, i + 1, TRUE)
    ELSE IF t[i] = "}" THEN FlatFrom(t, i + 1, FALSE)
    ELSE FlatFrom(t, i + 1, open)

Flat(t) == FlatFrom(t, 1, FALSE)

BraceFree(s) == \A i \in 1..Len(s) : s[i] \notin {"{", "}"}

\* Number of times name is among the placeholder names parse finds.
TimesFound(name) ==
    LET v == ParseTemplate(template).val.variables
    IN  Cardinality({ i \in 1..Len(v) : v[i] = name })

C12_PreviewSubstitutesOnce ==
    (/\ called = "get_template_preview"
     /\ ~Blank(template)
     /\ \A k \in DOMAIN sample : sample[k].isStr) =>
        /\ ~ret.exc
        /\ ret.val = PreviewSinglePass(template, 1, sample)

\* A generation request has been built.
Requested == pc \in {"calling", "returned", "raised"} /\ calls > 0

\* The keys of the section-headers mapping, in order.
HeaderKeys == [i \in 1..Len(request.section_headers) |-> request.section_headers[i].key]

\* q without the repetitions of a name after its first appearance.
RECURSIVE FirstAppearances(_)
FirstAppearances(q) ==
    IF q = <<>> THEN <<>>
    ELSE LET front == FirstAppearances(SubSeq(q, 1, Len(q) - 1))
             last  == q[Len(q)]
         IN  IF \E i \in 1..(Len(q) - 1) : q[i] = last
             THEN front
             ELSE Append(front, last)

\* C13 as stated: the list of variable names rewrite puts into the
\* generation request names each distinct variable exactly once, in order
\* of first appearance.
C13_RequestListDeduplicated ==
    Requested => request.variables = FirstAppearances(SpanNames(template))

\* C13 amended: the list of variable names put into the generation request
\* is parse's variables as they are, duplicates included; only the
\* section-headers mapping sent with it names each distinct variable
\* exactly once, in order of first appearance.
C13_RequestListRaw ==
    Requested =>
        /\ request.variables = SpanNames(template)
        /\ HeaderKeys = FirstAppearances(SpanNames(template))

C13_Witness ==
    /\ Requested
    /\ request.variables = << <<"a">>, <<"b">>, <<"a">> >>
    /\ HeaderKeys = << <<"a">>, <<"b">> >>

\* C14, in every state: the collaborator has been called at most once;
\* not at all when parse failed, exactly once when it succeeded; a result
\* is rendered only after the call; a fault of the collaborator has ended
\* the rewrite with an error after that one call.
C14_CallCount ==
    /\ calls \in {0, 1}
    /\ pc = "start" => calls = 0
    /\ (pc # "start" /\ Blank(template)) => (pc = "raised" /\ calls = 0)
    /\ (pc # "start" /\ ~Blank(template)) => calls = 1
    /\ pc = "returned" => calls = 1
    /\ response.type = "fault" => (pc = "raised" /\ outcome.exc /\ calls = 1)

\* C14, in every step: the call is made by the step that parsed the
\* template successfully, and the step that ends the rewrite (rendering
\* or raising on the collaborator's answer) makes no further call.
C14_CallStep ==
    /\ calls' # calls =>
           /\ pc = "start" /\ pc' = "calling"
           /\ ~ParseTemplate(template).exc
           /\ calls' = calls + 1
    /\ pc = "calling" => (pc' \in {"returned", "raised"} /\ calls' = calls)

\* C14: within one rewrite the collaborator is called at most once:
\* exactly once, after parsing and before rendering, whenever parse
\* succeeds, not at all when parse fails; a fault ends the rewrite with an
\* error without a second call.
C14_CalledOnce == [](C14_CallCount) /\ [][C14_CallStep]_vars

C14_Witness ==
    /\ pc = "raised"
    /\ response.type = "fault"
    /\ calls = 1
    /\ outcome.exc

\* The variables lists of the entries of variable_sections, concatenated
\* in the order of the entries.
RECURSIVE SectionVariables(_)
SectionVariables(entries) ==
    IF entries = <<>> THEN <<>>
    ELSE Head(entries).variables \o SectionVariables(Tail(entries))

\* The entries of variable_sections are in increasing index order.
IndexOrdered(entries) ==
    \A i, j \in 1..Len(entries) : i < j => entries[i].index < entries[j].index

\* No placeholder span of t holds the divider token.
NoSpanHoldsDivider(t) ==
    \A i \in SpanStarts(t) : ~Contains(SpanName(t, i), Divider)

\* C15 as stated: for every non-empty template, the variables lists of
\* the entries of variable_sections, concatenated in index order, are
\* exactly parse's top-level variables, also when a {...} span holds the
\* divider.
C15_SectionsAgreeWithScan ==
    (called = "parse_template" /\ ~Blank(template)) =>
        /\ IndexOrdered(ret.val.variable_sections)
        /\ SectionVariables(ret.val.variable_sections) = ret.val.variables

\* C15 amended: for every non-empty template in which no {...} span holds
\* the divider, the variables lists of the entries of variable_sections,
\* concatenated in index order, are exactly parse's top-level variables.
C15_SectionsAgreeUnlessSpanDivided ==
    (called = "parse_template" /\ ~Blank(template)
        /\ NoSpanHoldsDivider(template)) =>
        /\ IndexOrdered(ret.val.variable_sections)
        /\ SectionVariables(ret.val.variable_sections) = ret.val.variables

C15_Witness ==
    /\ called = "parse_template"
    /\ template = <<"{", "a", "}", "-", "-", "-", "{", "b", "}", "{", "a", "}">>
    /\ Len(ret.val.variable_sections) = 2
    /\ ret.val.variables = << <<"a">>, <<"b">>, <<"a">> >>

\* The two stored values of the form.
Stored == << session.rewritten_resume, session.cover_letter >>

\* One of the four inputs of the form is empty.
AnyInputMissing ==
    \/ session.resume_text = <<>>
    \/ session.job_description = <<>>
    \/ session.user_experience = <<>>
    \/ session.format_template = <<>>

\* C16, in every state: the stored values are the initial empty ones
\* while no rewrite has succeeded, and afterwards the resume and the cover
\* letter returned by one and the same (the last successful) rewrite call.
C16_StoredPair ==
    IF audit.succeeded
    THEN Stored = << audit.resume, audit.cover_letter >>
    ELSE Stored = << <<>>, <<>> >>

\* C16, in every step: with an input missing rewrite is not called; a
\* step that does not end in a successful rewrite (a rejected press, a
\* failed rewrite, an edit) leaves both stored values unchanged.
C16_Step ==
    /\ AnyInputMissing => audit'.rewrites = audit.rewrites
    /\ shown' # "success" => Stored' = Stored
    /\ Stored' # Stored => audit'.rewrites = audit.rewrites + 1

\* C16: over any sequence of presses the stored rewritten_resume and
\* cover_letter come from the same successful rewrite call; a press with a
\* missing input does not call rewrite, and a rejected press or a failed
\* rewrite leaves both stored values unchanged.
C16_StoredFromOneRewrite == [](C16_StoredPair) /\ [][C16_Step]_vars

C16_Witness ==
    /\ audit.succeeded
    /\ audit.rewrites = 2
    /\ shown = "error"
    /\ Stored = << <<"a", "-", "-", "-", "X">>, <<"D">> >>

====
